---- MODULE Spec2Model ----
(***************************************************************************)
(* A model of mathics/formatter/asy.py: the Asymptote formatters of the    *)
(* graphics primitives, the container formatter graphicselements, the SVG  *)
(* wrapper graphicsbox and the transform builder _ASYTransform; and of     *)
(* mathics/builtin/constants.py: get_constant and apply_N of the classes   *)
(* of the constants.                                                       *)
(*                                                                         *)
(* A text is a sequence of tokens (strings); concatenating the tokens      *)
(* gives the Python string.  Digits, signs and padding blanks of a         *)
(* formatted number are one token each, so two texts are equal exactly     *)
(* when the Python strings are.  A call that raises returns no text: its   *)
(* result carries the exception's name as status.                          *)
(***************************************************************************)
EXTENDS Integers, Sequences, FiniteSets, TLC

VARIABLES
    elements,    \* the children of the scene (GraphicsElements.elements)
    view_width,  \* the scene's view_width: None until it is assigned
    transforms,  \* the operation texts of an _ASYTransform
    ops,         \* the calls made on the _ASYTransform, as called
    prim,        \* the primitive a primitive formatter is called on
    call,        \* the function called last
    args,        \* its arguments
    out,         \* its result: the text returned or the exception raised
    dispatched,  \* the children the last graphicselements call looked up, in order
    mp_dps       \* mpmath.mp.dps: None until the program assigns it

vars == <<elements, view_width, transforms, ops, prim, call, args, out, dispatched, mp_dps>>

(***************************************************************************)
(* Bounds of the model.                                                    *)
(***************************************************************************)
MaxChildren == 3

MaxLines == 2

MaxOps == 3

(***************************************************************************)
(* Texts.                                                                  *)
(***************************************************************************)
None == <<>>

Some(x) == <<x>>

RECURSIVE Concat(_)
Concat(ts) == IF ts = <<>> THEN <<>> ELSE Head(ts) \o Concat(Tail(ts))

\* sep.join(ts), for a sequence ts of texts
RECURSIVE Join(_, _)
Join(sep, ts) ==
    IF ts = <<>> THEN <<>>
    ELSE IF Len(ts) = 1 THEN ts[1]
    ELSE ts[1] \o sep \o Join(sep, Tail(ts))

RECURSIVE Repeat(_, _)
Repeat(tok, n) == IF n <= 0 THEN <<>> ELSE <<tok>> \o Repeat(tok, n - 1)

Count(tok, t) == Cardinality({k \in 1..Len(t) : t[k] = tok})

(***************************************************************************)
(* Python's number formatting, on the integral values the model uses as    *)
(* coordinates.                                                            *)
(***************************************************************************)
Abs(n) == IF n < 0 THEN -n ELSE n

RECURSIVE Pow10(_)
Pow10(k) == IF k <= 0 THEN 1 ELSE 10 * Pow10(k - 1)

RECURSIVE NumDigits(_)
NumDigits(n) == IF n < 10 THEN 1 ELSE 1 + NumDigits(n \div 10)

DigitChar(d) == <<"0", "1", "2", "3", "4", "5", "6", "7", "8", "9">>[d + 1]

\* the decimal digits of n >= 0
RECURSIVE DecChars(_)
DecChars(n) ==
    IF n < 10 THEN <<DigitChar(n)>>
    ELSE DecChars(n \div 10) \o <<DigitChar(n % 10)>>

RECURSIVE StripZeros(_)
StripZeros(cs) ==
    IF cs /= <<>> /\ cs[Len(cs)] = "0"
    THEN StripZeros(SubSeq(cs, 1, Len(cs) - 1))
    ELSE cs

Sign(n) == IF n < 0 THEN <<"-">> ELSE <<>>

\* the exponent form of %g: n >= 10^prec rounded half-even to prec digits
GExponent(prec, n) ==
    LET X     == NumDigits(n) - 1
        shift == X + 1 - prec
        q     == n \div Pow10(shift)
        r     == n % Pow10(shift)
        half  == 5 * Pow10(shift - 1)
        up    == r > half \/ (r = half /\ q % 2 = 1)
        m0    == IF up THEN q + 1 ELSE q
        over  == m0 = Pow10(prec)
        m     == IF over THEN Pow10(prec - 1) ELSE m0
        e     == IF over THEN X + 1 ELSE X
        ds    == DecChars(m)
        frac  == StripZeros(Tail(ds))
    IN  <<Head(ds)>> \o (IF frac = <<>> THEN <<>> ELSE <<".">> \o frac)
        \o <<"e", "+">> \o (IF e < 10 THEN <<"0">> ELSE <<>>) \o DecChars(e)

\* "%<width>.<prec>g" % n
FormatG(prec, width, n) ==
    LET a    == Abs(n)
        body == Sign(n) \o (IF NumDigits(a) <= prec THEN DecChars(a)
                                                     ELSE GExponent(prec, a))
    IN  Repeat(" ", width - Len(body)) \o body

\* "%.5g" % n
Fmt_5g(n) == FormatG(5, 0, n)

\* "%5g" % n: a minimum width of 5 and the default precision of 6
Fmt5g(n) == FormatG(6, 5, n)

\* "%f" % n: six decimals
Fmt_f(n) == Sign(n) \o DecChars(Abs(n)) \o <<".", "0", "0", "0", "0", "0", "0">>

\* repr of the float n, as "%s" shows it
FloatRepr(n) == Sign(n) \o DecChars(Abs(n)) \o <<".", "0">>

(***************************************************************************)
(* Results of a call: the text returned, or the exception raised.          *)
(***************************************************************************)
Ok(text) == [status |-> "ok", text |-> text]

Raise(exc) == [status |-> exc, text |-> <<>>]

NoResult == [status |-> "none", text |-> <<>>]

(***************************************************************************)
(* The primitives.  A coordinate is a pair <<x, y>> of resolved numbers, a *)
(* polyline a sequence of coordinates, a color a name or NoColor.          *)
(***************************************************************************)
NoColor == "None"

\* the polylines of the model; Polygon[{}] gives a polyline without vertices
Polylines ==
    { <<>>,
      << <<0, 0>> >>,
      << <<0, 0>>, <<10, 0>>, <<10, 10>> >>,
      << <<1, 2>>, <<123456, -3>> >> }

RECURSIVE SeqsUpTo(_, _)
SeqsUpTo(S, n) ==
    IF n = 0 THEN {<<>>}
    ELSE LET shorter == SeqsUpTo(S, n - 1)
         IN  shorter \cup {Append(s, x) : s \in shorter, x \in S}

LineLists == SeqsUpTo(Polylines, MaxLines)

Corners == {<<0, 0>>, <<10, 10>>, <<123456, -3>>}

Palette(i, j) == <<"red", "green", "blue">>[((i + j - 2) % 3) + 1]

\* vertex colors of the shape the Style invariant asks for: one list per
\* polyline, one color per vertex
ShapedColors(lines) ==
    [i \in 1..Len(lines) |-> [j \in 1..Len(lines[i]) |-> Palette(i, j)]]

\* the same with a list dropped, a list added, a color dropped, a color added
MisshapedColors(lines) ==
    LET vc == ShapedColors(lines)
    IN  {Append(vc, <<"red">>)}
        \cup (IF lines = <<>> THEN {}
              ELSE { SubSeq(vc, 1, Len(vc) - 1),
                     [vc EXCEPT ![1] = Append(vc[1], "blue")] })
        \cup (IF lines = <<>> \/ lines[1] = <<>> THEN {}
              ELSE { [vc EXCEPT ![1] = Tail(vc[1])] })

LinePrims ==
    {[kind |-> "Line", lines |-> ls, edge_color |-> e] :
        ls \in LineLists, e \in {NoColor, "black"}}

PointPrims ==
    {[kind |-> "Point", lines |-> ls, face_color |-> f] :
        ls \in LineLists, f \in {NoColor, "black"}}

PolygonPrims ==
    UNION { {[kind |-> "Polygon", lines |-> ls, edge_color |-> e,
              face_color |-> f, vertex_colors |-> vc] :
                e \in {NoColor, "black"}, f \in {NoColor, "white"},
                vc \in {None, Some(ShapedColors(ls))}
                       \cup {Some(m) : m \in MisshapedColors(ls)}}
            : ls \in LineLists }

RectanglePrims ==
    {[kind |-> "Rectangle", p1 |-> a, p2 |-> b, edge_color |-> e, face_color |-> f] :
        a \in Corners, b \in Corners, e \in {NoColor, "black"}, f \in {NoColor, "white"}}

\* an Arrow, with the points its head builder is called with
ArrowPrims ==
    {[kind |-> "Arrow", edge_color |-> e, points |-> pts] :
        e \in {NoColor, "black"}, pts \in Polylines}

Primitives == LinePrims \cup PointPrims \cup PolygonPrims \cup RectanglePrims \cup ArrowPrims

\* the Style invariant of a Polygon's vertex colors
Shaped(p) ==
    p.vertex_colors /= None =>
        /\ Len(p.vertex_colors[1]) = Len(p.lines)
        /\ \A i \in 1..Len(p.lines) : Len(p.vertex_colors[1][i]) = Len(p.lines[i])

(***************************************************************************)
(* mathics.formatter.asy_fns and the style's line width.                   *)
(***************************************************************************)
get_line_width(face_element) == 1

asy_number(v) == Fmt_5g(v)

\* the pen of a color, its opacity dropped
asy_color(color) == <<"rgb(", color, ")">>

\* The sentinel is the empty pen for a stroke and "nullpen" for a face
\* element: the two values the formatters test for.
asy_create_pens(edge_color, face_color, stroke_width, is_face_element) ==
    LET absent == IF is_face_element THEN <<"nullpen">> ELSE <<>>
        fill   == IF face_color /= NoColor THEN asy_color(face_color) ELSE absent
        stroke == IF edge_color /= NoColor
                  THEN asy_color(edge_color)
                       \o (IF stroke_width = None THEN <<>>
                           ELSE <<"+linewidth(">> \o asy_number(stroke_width[1]) \o <<")">>)
                  ELSE absent
    IN  IF edge_color = NoColor /\ face_color = NoColor THEN absent
        ELSE Join(<<", ">>, SelectSeq(<<fill, stroke>>, LAMBDA t : t /= <<>>))

(***************************************************************************)
(* The formatters of the primitives.                                       *)
(***************************************************************************)
\* "(%.5g,%5g)" % xy
Coord_5g_5g(xy) == <<"(">> \o Fmt_5g(xy[1]) \o <<",">> \o Fmt5g(xy[2]) \o <<")">>

\* "(%.5g,%.5g)" % xy
Coord_5g_x2(xy) == <<"(">> \o Fmt_5g(xy[1]) \o <<",">> \o Fmt_5g(xy[2]) \o <<")">>

\* "%s" % (xy,): the repr of a tuple of floats
CoordRepr(xy) == <<"(">> \o FloatRepr(xy[1]) \o <<", ">> \o FloatRepr(xy[2]) \o <<")">>

\* "--".join(["(%.5g,%5g)" % xy for xy in line])
Path_5g_5g(line) == Join(<<"--">>, [k \in 1..Len(line) |-> Coord_5g_5g(line[k])])

\* "--".join(["(%.5g,%.5g)" % xy for xy in line])
Path_5g_x2(line) == Join(<<"--">>, [k \in 1..Len(line) |-> Coord_5g_x2(line[k])])

\* the head builder arrowbox hands to _default_arrow
polygon(self, points) ==
    LET width     == get_line_width(FALSE)
        arrow_pen == asy_create_pens(NoColor, self.edge_color, Some(width), FALSE)
    IN  Ok(<<"filldraw(">> \o Path_5g_5g(points) \o <<"--cycle, ">> \o arrow_pen \o <<");">>)

linebox(self) ==
    LET line_width == get_line_width(FALSE)
        pen        == asy_create_pens(self.edge_color, NoColor, Some(line_width), FALSE)
    IN  Ok(Concat([k \in 1..Len(self.lines) |->
            <<"draw(">> \o Path_5g_5g(self.lines[k]) \o <<", ">> \o pen \o <<");">>]))

pointbox(self) ==
    LET pen == asy_create_pens(NoColor, self.face_color, None, FALSE)
    IN  Ok(Concat([k \in 1..Len(self.lines) |->
            Concat([j \in 1..Len(self.lines[k]) |->
                <<"dot(">> \o CoordRepr(self.lines[k][j]) \o <<", ">> \o pen \o <<");">>])]))

\* the gouraudshade command of lines 328-348
Gouraud(lines, vertex_colors) ==
    LET paths  == [k \in 1..Len(lines) |-> Path_5g_x2(lines[k]) \o <<"--cycle">>]
        colors == [k \in 1..Len(lines) |-> Join(<<",">>, [j \in 1..Len(vertex_colors[k]) |-> asy_color(vertex_colors[k][j])])]
        edges  == [k \in 1..Len(lines) |->
                    Join(<<",">>, <<<<"0">>>> \o
                        [j \in 1..(Len(vertex_colors[k]) - 1) |-> <<"1">>])]
    IN  <<"gouraudshade(">> \o Join(<<"^^">>, paths)
        \o <<", new pen[] {">> \o Join(<<",">>, colors)
        \o <<"}, new int[] {">> \o Join(<<",">>, edges) \o <<"});">>

\* lines 349-354 with the test of "nullpen" forgotten
FlatFill_EmptyTestOnly(lines, pens) ==
    IF pens /= <<>>
    THEN Concat([k \in 1..Len(lines) |->
            <<"filldraw(">> \o Path_5g_x2(lines[k])
            \o <<"--cycle">> \o <<", ">> \o pens \o <<");">>])
    ELSE <<>>

\* the flat fills of lines 349-354
FlatFill(lines, pens) ==
    IF pens /= <<>> /\ pens /= <<"nullpen">>
    THEN Concat([k \in 1..Len(lines) |->
            <<"filldraw(">> \o Path_5g_x2(lines[k])
            \o <<"--cycle">> \o <<", ">> \o pens \o <<");">>])
    ELSE <<>>

polygonbox(self) ==
    LET line_width == get_line_width(TRUE)
        face_color == IF self.vertex_colors = None THEN self.face_color ELSE NoColor
        pens       == asy_create_pens(self.edge_color, face_color, Some(line_width), TRUE)
        shaded     == self.vertex_colors /= None
    IN  IF shaded /\ Len(self.lines) > Len(self.vertex_colors[1])
        THEN Raise("IndexError")
        ELSE Ok((IF shaded THEN Gouraud(self.lines, self.vertex_colors[1]) ELSE <<>>)
                \o FlatFill(self.lines, pens))

rectanglebox(self) ==
    LET line_width == get_line_width(TRUE)
        pens == asy_create_pens(self.edge_color, self.face_color, Some(line_width), TRUE)
        x1 == asy_number(self.p1[1])
        y1 == asy_number(self.p1[2])
        x2 == asy_number(self.p2[1])
        y2 == asy_number(self.p2[2])
        C(x, y) == <<"(">> \o x \o <<",">> \o y \o <<")">>
    IN  Ok(<<"filldraw(">> \o C(x1, y1) \o <<"--">> \o C(x2, y1) \o <<"--">> \o C(x2, y2)
           \o <<"--">> \o C(x1, y2) \o <<"--cycle, ">> \o pens \o <<");">>)

(***************************************************************************)
(* The registry and the container formatter.                               *)
(***************************************************************************)
\* the classes add_conversion_fn registers a formatter for, of those modelled
Registered == {"Arrow", "Line", "Point", "Polygon", "Rectangle"}

\* lookup_method(self, "asy"): the registered formatter's name, or None
lookup_method(self) == IF self.kind \in Registered THEN Some(self.kind) ELSE None

\* format_fn(element), for the formatter lookup_method found
format_fn(element) ==
    CASE element.kind = "Line"      -> linebox(element)
      [] element.kind = "Point"     -> pointbox(element)
      [] element.kind = "Polygon"   -> polygonbox(element)
      [] element.kind = "Rectangle" -> rectanglebox(element)

\* the default conversion of an element
to_asy(element) == <<"to_asy(", element.kind, ")">>

\* asy.py binds no name "offset": it is no parameter or local of
\* graphicselements and no global of the module
OffsetIsBound == FALSE

\* element.to_asy(offset), line 189: the attribute is looked up, then the
\* argument is evaluated, then the method is called
CallToAsy(element) ==
    IF ~element.has_to_asy THEN Raise("AttributeError")
    ELSE IF ~OffsetIsBound THEN Raise("NameError")
    ELSE Ok(to_asy(element))

\* one turn of the loop of lines 186-191
Dispatch(element) ==
    IF lookup_method(element) = None THEN CallToAsy(element) ELSE format_fn(element)

\* the loop of lines 186-191 from child i on, and the join of line 193
RECURSIVE ElementsLoop(_, _, _, _)
ElementsLoop(els, i, result, log) ==
    IF i > Len(els)
    THEN [status |-> "ok", text |-> Join(<<"\n">>, result), dispatched |-> log]
    ELSE IF Dispatch(els[i]).status /= "ok"
    THEN [status |-> Dispatch(els[i]).status, text |-> <<>>,
          dispatched |-> Append(log, i)]
    ELSE ElementsLoop(els, i + 1, Append(result, Dispatch(els[i]).text), Append(log, i))

\* graphicselements with the children joined by nothing
graphicselements_NoSeparator(els) ==
    LET r == ElementsLoop(els, 1, <<>>, <<>>)
    IN  IF r.status = "ok"
        THEN [r EXCEPT !.text = Concat([i \in 1..Len(els) |-> Dispatch(els[i]).text])]
        ELSE r

graphicselements(els) == ElementsLoop(els, 1, <<>>, <<>>)

NoPrim == [kind |-> "none"]

\* the children of the scenes: registered primitives that format, one that
\* formats to the empty text, one that raises, and two unregistered elements
Children ==
    { [kind |-> "Line", lines |-> << << <<0, 0>>, <<10, 10>> >> >>, edge_color |-> "black"],
      [kind |-> "Line", lines |-> <<>>, edge_color |-> "black"],
      [kind |-> "Point", lines |-> << << <<1, 2>> >> >>, face_color |-> "black"],
      [kind |-> "Polygon", lines |-> << << <<0, 0>>, <<10, 0>>, <<10, 10>> >> >>,
       edge_color |-> NoColor, face_color |-> "white", vertex_colors |-> None],
      [kind |-> "Polygon", lines |-> << << <<0, 0>>, <<10, 0>>, <<10, 10>> >> >>,
       edge_color |-> NoColor, face_color |-> "white", vertex_colors |-> Some(<<>>)],
      [kind |-> "Custom", has_to_asy |-> TRUE],
      [kind |-> "Custom", has_to_asy |-> FALSE] }

AddChild(child) ==
    /\ Len(elements) < MaxChildren
    /\ elements' = Append(elements, child)
    /\ call' = "GraphicsElements"
    /\ args' = <<>>
    /\ out' = NoResult
    /\ dispatched' = <<>>
    /\ UNCHANGED <<view_width, transforms, ops, prim, mp_dps>>

GraphicsElements ==
    LET r == graphicselements(elements)
    IN  /\ call' = "graphicselements"
        /\ args' = <<>>
        /\ out' = [status |-> r.status, text |-> r.text]
        /\ dispatched' = r.dispatched
        /\ UNCHANGED <<elements, view_width, transforms, ops, prim, mp_dps>>

InitScene ==
    /\ elements = <<>>
    /\ view_width = None
    /\ transforms = <<>>
    /\ ops = <<>>
    /\ prim = NoPrim
    /\ call = "none"
    /\ args = <<>>
    /\ out = NoResult
    /\ dispatched = <<>>
    /\ mp_dps = None

NextContainer == (\E child \in Children : AddChild(child)) \/ GraphicsElements

SpecContainer == InitScene /\ [][NextContainer]_vars

(***************************************************************************)
(* _ASYTransform.  self is the list self.transforms; an operation returns  *)
(* the list as it leaves it.                                               *)
(***************************************************************************)
\* "(%f, %f, %f, %f, %f, %f)" % the six numbers of ns
Numbers_f(sep, ns) == Join(sep, [k \in 1..Len(ns) |-> Fmt_f(ns[k])])

Tuple_f(ns) == <<"(">> \o Numbers_f(<<", ">>, ns) \o <<")">>

\* matrix with the parameters written in the order they are passed
matrix_AsPassed(self, a, b, c, d, e, f) == Append(self, Tuple_f(<<a, b, c, d, e, f>>))

matrix(self, a, b, c, d, e, f) == Append(self, Tuple_f(<<e, f, a, c, b, d>>))

translate(self, x, y) ==
    Append(self, <<"shift(">> \o Fmt_f(x) \o <<", ">> \o Fmt_f(y) \o <<")">>)

scale(self, x, y) ==
    Append(self, <<"scale(">> \o Fmt_f(x) \o <<", ">> \o Fmt_f(y) \o <<")">>)

rotate(self, x) == Append(self, <<"rotate(">> \o Fmt_f(x) \o <<")">>)

\* the three literal parts of _template
TemplateHead == <<"\n    add(">>

TemplateOpen ==
    <<" * (new picture() {\n        picture saved = currentpicture;\n        picture transformed = new picture;\n        currentpicture = transformed;\n        ">>

TemplateClose ==
    <<"\n        currentpicture = saved;\n        return transformed;\n    })());\n    ">>

apply(self, asy) ==
    Ok(TemplateHead \o Join(<<" * ">>, self) \o TemplateOpen \o asy \o TemplateClose)

Operated(name, as, ts) ==
    /\ Len(transforms) < MaxOps
    /\ transforms' = ts
    /\ ops' = Append(ops, [op |-> name, args |-> as])
    /\ call' = name
    /\ args' = as
    /\ out' = NoResult
    /\ UNCHANGED <<elements, view_width, prim, dispatched, mp_dps>>

Matrix(m) == Operated("matrix", m, matrix(transforms, m[1], m[2], m[3], m[4], m[5], m[6]))

Translate(xy) == Operated("translate", xy, translate(transforms, xy[1], xy[2]))

Scale(xy) == Operated("scale", xy, scale(transforms, xy[1], xy[2]))

Rotate(x) == Operated("rotate", <<x>>, rotate(transforms, x))

\* apply with the operations dropped once they are written
Apply_Consuming(asy) ==
    /\ call' = "apply"
    /\ args' = <<asy>>
    /\ out' = apply(transforms, asy)
    /\ transforms' = <<>>
    /\ UNCHANGED <<elements, view_width, ops, prim, dispatched, mp_dps>>

Apply(asy) ==
    /\ call' = "apply"
    /\ args' = <<asy>>
    /\ out' = apply(transforms, asy)
    /\ UNCHANGED <<elements, view_width, transforms, ops, prim, dispatched, mp_dps>>

Matrices == {<<1, 0, 0, 1, 5, 7>>, <<2, 3, 4, 5, 6, -7>>}

Shifts == {<<5, 7>>, <<0, -1>>}

Scales == {<<2, 3>>}

Angles == {90, -45}

Bodies == {<<"draw(X);">>, <<>>}

NextTransform ==
    \/ \E m \in Matrices : Matrix(m)
    \/ \E xy \in Shifts : Translate(xy)
    \/ \E xy \in Scales : Scale(xy)
    \/ \E x \in Angles : Rotate(x)
    \/ \E asy \in Bodies : Apply(asy)

SpecTransform == InitScene /\ [][NextTransform]_vars

(***************************************************************************)
(* graphicsbox.                                                            *)
(***************************************************************************)
\* the extents the layout stage computes for the leaves, when no data is
\* passed in
calc_dimensions(els) == [xmin |-> 0, ymin |-> 0, w |-> 10 * (Len(els) + 1), h |-> 10]

\* the body the "svg" formatter of the elements returns
to_svg(els) == Concat([i \in 1..Len(els) |-> <<"<", els[i].kind, "/>">>])

\* the text graphicsbox returns for elements els of extents dim
graphicsbox(els, dim, background_color, noheader) ==
    LET svg_body == to_svg(els)
        wrapped  ==
            IF background_color /= NoColor
            THEN <<"<rect x=\"">> \o Fmt_f(dim.xmin) \o <<"\" y=\"">> \o Fmt_f(dim.ymin)
                 \o <<"\" width=\"">> \o Fmt_f(dim.w) \o <<"\" height=\"">> \o Fmt_f(dim.h)
                 \o <<"\" style=\"fill:", background_color, "\"/>">> \o svg_body
            ELSE svg_body
        viewBox  == Numbers_f(<<" ">>, <<dim.xmin - 1, dim.ymin - 1, dim.w + 2, dim.h + 2>>)
    IN  IF noheader THEN Ok(wrapped)
        ELSE Ok(<<"<svg xmlns:svg=\"http://www.w3.org/2000/svg\" xmlns=\"http://www.w3.org/2000/svg\" version=\"1.1\" viewBox=\"">>
                \o viewBox \o <<"\">">> \o wrapped \o <<"</svg>">>)

\* A call of graphicsbox.  With data, the elements are the caller's (the
\* scene) and line 141 assigns their view_width; without, they are built
\* for the call and dropped after it.
GraphicsBox(data, background_color, noheader) ==
    LET dim == IF data /= None THEN data[1] ELSE calc_dimensions(elements)
    IN  /\ view_width' = IF data /= None THEN Some(dim.w) ELSE view_width
        /\ call' = "graphicsbox"
        /\ args' = [data |-> data, background_color |-> background_color,
                    noheader |-> noheader]
        /\ out' = graphicsbox(elements, dim, background_color, noheader)
        /\ dispatched' = <<>>
        /\ UNCHANGED <<elements, transforms, ops, prim, mp_dps>>

DataChoices ==
    {None, Some([xmin |-> 0, ymin |-> 0, w |-> 5, h |-> 7]),
           Some([xmin |-> -3, ymin |-> 0, w |-> 7, h |-> 7])}

PureChildren == {c \in Children : c.kind \in {"Line", "Point"} /\ c.lines /= <<>>}

NextPurity ==
    \/ \E child \in PureChildren : AddChild(child)
    \/ GraphicsElements
    \/ \E data \in DataChoices, bg \in {NoColor, "white"}, noheader \in BOOLEAN :
            GraphicsBox(data, bg, noheader)
    \/ Translate(<<5, 7>>)
    \/ Rotate(90)
    \/ Apply(<<"draw(X);">>)

SpecPurity == InitScene /\ [][NextPurity]_vars

(***************************************************************************)
(* One primitive and the call of its formatter.                            *)
(***************************************************************************)
Called(name, result) ==
    /\ call' = name
    /\ out' = result
    /\ UNCHANGED <<elements, view_width, transforms, ops, prim, args, dispatched, mp_dps>>

LineBox == prim.kind = "Line" /\ Called("linebox", linebox(prim))

PointBox == prim.kind = "Point" /\ Called("pointbox", pointbox(prim))

PolygonBox == prim.kind = "Polygon" /\ Called("polygonbox", polygonbox(prim))

RectangleBox == prim.kind = "Rectangle" /\ Called("rectanglebox", rectanglebox(prim))

ArrowHead == prim.kind = "Arrow" /\ Called("polygon", polygon(prim, prim.points))

InitPrimitive ==
    /\ prim \in Primitives
    /\ elements = <<>>
    /\ view_width = None
    /\ transforms = <<>>
    /\ ops = <<>>
    /\ call = "none"
    /\ args = <<>>
    /\ out = NoResult
    /\ dispatched = <<>>
    /\ mp_dps = None

NextPrimitive == LineBox \/ PointBox \/ PolygonBox \/ RectangleBox \/ ArrowHead

SpecPrimitive == InitPrimitive /\ [][NextPrimitive]_vars

(***************************************************************************)
(* Reading a text back: its commands, and the coordinates written in it.   *)
(***************************************************************************)
\* the place of the first token tok of t
IndexOf(tok, t) ==
    CHOOSE i \in 1..Len(t) : t[i] = tok /\ \A m \in 1..(i - 1) : t[m] /= tok

\* the tokens of t between the first a and the first b
Between(t, a, b) == SubSeq(t, IndexOf(a, t) + 1, IndexOf(b, t) - 1)

\* the r-th smallest member of the set I of indices
Nth(I, r) == CHOOSE i \in I : Cardinality({m \in I : m <= i}) = r

\* the commands of t, each up to and with its terminator
Commands(t) ==
    LET ends == {i \in 1..Len(t) : t[i] \in {");", "});"}}
    IN  [r \in 1..Cardinality(ends) |->
            SubSeq(t, (IF r = 1 THEN 0 ELSE Nth(ends, r - 1)) + 1, Nth(ends, r))]

\* the first place after i of a token of toks
NextOf(t, i, toks) ==
    CHOOSE j \in (i + 1)..Len(t) :
        t[j] \in toks /\ \A m \in (i + 1)..(j - 1) : t[m] \notin toks

\* the coordinates written in t, each as <<text of x, text of y>>
WrittenCoords(t) ==
    LET opens == {i \in 1..Len(t) : t[i] = "("}
    IN  [r \in 1..Cardinality(opens) |->
            LET i == Nth(opens, r)
                j == NextOf(t, i, {",", ", "})
                k == NextOf(t, j, {")"})
            IN  <<SubSeq(t, i + 1, j - 1), SubSeq(t, j + 1, k - 1)>>]

\* the vertices of a primitive with polylines, in the order stored
RECURSIVE Flatten(_)
Flatten(ls) == IF ls = <<>> THEN <<>> ELSE Head(ls) \o Flatten(Tail(ls))

Vertices(p) == IF p.kind = "Arrow" THEN p.points ELSE Flatten(p.lines)

\* the edge flags the Polygon rule gives a polyline of n vertices
EdgeFlags(n) == Join(<<",">>, [j \in 1..n |-> IF j = 1 THEN <<"0">> ELSE <<"1">>])

(***************************************************************************)
(* C5.  Polygon without vertex colors.                                     *)
(***************************************************************************)
\* C5 as stated: for every Polygon whose vertex_colors is absent, polygonbox
\* emits exactly one filldraw per polyline, each ending with "--cycle", and
\* no gouraudshade.
C5_OneFillPerPolyline ==
    (call = "polygonbox" /\ prim.vertex_colors = None) =>
        /\ out.status = "ok"
        /\ Count("filldraw(", out.text) = Len(prim.lines)
        /\ Count("--cycle", out.text) = Len(prim.lines)
        /\ Count("gouraudshade(", out.text) = 0

\* C5 amended: for every Polygon whose vertex_colors is absent, polygonbox
\* emits no gouraudshade; when the Polygon has an edge or a face color (its
\* pen is not the sentinel) it emits exactly one filldraw per polyline, in
\* polyline order, the k-th holding the k-th polyline's path followed by
\* "--cycle"; when it has neither color it emits nothing.
C5_OneFillPerPolylineUnlessNoPen ==
    (call = "polygonbox" /\ prim.vertex_colors = None) =>
        LET t    == out.text
            n    == Len(prim.lines)
            cmds == Commands(t)
        IN  /\ out.status = "ok"
            /\ Count("gouraudshade(", t) = 0
            /\ IF prim.edge_color = NoColor /\ prim.face_color = NoColor
               THEN t = <<>>
               ELSE /\ Count("filldraw(", t) = n
                    /\ Count("--cycle", t) = n
                    /\ Len(cmds) = n
                    /\ \A k \in 1..n :
                        LET path == Path_5g_x2(prim.lines[k])
                        IN  /\ cmds[k][1] = "filldraw("
                            /\ SubSeq(cmds[k], 2, Len(path) + 2) = path \o <<"--cycle">>

C5_Witness ==
    /\ call = "polygonbox"
    /\ prim.vertex_colors = None
    /\ prim.face_color = "white"
    /\ Len(prim.lines) = 2
    /\ prim.lines[1] /= prim.lines[2]
    /\ Count("filldraw(", out.text) = 2

(***************************************************************************)
(* C6.  Polygon with vertex colors of the shape of its polylines.          *)
(***************************************************************************)
\* what C6 says of the Polygon p formatted to the text t: exactly one
\* gouraudshade, which holds the closed paths of all polylines and comes
\* before every filldraw; the edge flags of each polyline are one per
\* vertex, the first 0 and the later ones 1
OneShadeBeforeFills(p, t) ==
    LET n == Len(p.lines)
    IN  /\ Count("gouraudshade(", t) = 1
        /\ \A i \in 1..Len(t) : t[i] = "filldraw(" => IndexOf("gouraudshade(", t) < i
        /\ Between(t, "gouraudshade(", ", new pen[] {")
             = Join(<<"^^">>, [k \in 1..n |-> Path_5g_x2(p.lines[k]) \o <<"--cycle">>])
        /\ Between(t, "}, new int[] {", "});")
             = Join(<<",">>, [k \in 1..n |-> EdgeFlags(Len(p.lines[k]))])

\* C6: for every Polygon with vertex_colors present (of the shape the Style
\* invariant asks for: one list per polyline, one color per vertex),
\* polygonbox emits exactly one gouraudshade, before every filldraw, with
\* one edge flag per vertex of each polyline, the first 0, the later ones 1.
C6_OneShadeBeforeFills ==
    (call = "polygonbox" /\ prim.vertex_colors /= None /\ Shaped(prim)) =>
        /\ out.status = "ok"
        /\ OneShadeBeforeFills(prim, out.text)

\* C6 holds of the Polygons whose polylines all have a vertex (no theorem of
\* a claim: it bounds what the counterexample of C6 shows).
C6_HoldsOfPolylinesWithVertices ==
    (call = "polygonbox" /\ prim.vertex_colors /= None /\ Shaped(prim)
        /\ \A k \in 1..Len(prim.lines) : prim.lines[k] /= <<>>) =>
        /\ out.status = "ok"
        /\ OneShadeBeforeFills(prim, out.text)

(***************************************************************************)
(* C7.  Polygon with vertex colors of another shape.                       *)
(***************************************************************************)
\* C7: when vertex_colors does not match the geometry (fewer or more lists
\* than polylines, or a list whose length is not the polyline's vertex
\* count), polygonbox fails with ShapeMismatch.
C7_ShapeMismatch ==
    (call = "polygonbox" /\ ~Shaped(prim)) => out.status = "ShapeMismatch"

(***************************************************************************)
(* C9.  The sentinel pen.                                                  *)
(***************************************************************************)
\* the pen a formatter builds for its primitive
PenOf(p) ==
    CASE p.kind = "Line" ->
            asy_create_pens(p.edge_color, NoColor, Some(get_line_width(FALSE)), FALSE)
      [] p.kind = "Point" ->
            asy_create_pens(NoColor, p.face_color, None, FALSE)
      [] p.kind = "Rectangle" ->
            asy_create_pens(p.edge_color, p.face_color, Some(get_line_width(TRUE)), TRUE)
      [] p.kind = "Polygon" ->
            asy_create_pens(p.edge_color,
                            IF p.vertex_colors = None THEN p.face_color ELSE NoColor,
                            Some(get_line_width(TRUE)), TRUE)
      [] p.kind = "Arrow" ->
            asy_create_pens(NoColor, p.edge_color, Some(get_line_width(FALSE)), FALSE)

\* C9: whenever the pen builder returns the sentinel for a primitive, its
\* formatter emits no draw, fill or dot command.
C9_NoCommandWithoutPen ==
    (call \in {"linebox", "pointbox", "rectanglebox", "polygonbox"}
        /\ PenOf(prim) \in {<<>>, <<"nullpen">>}) =>
            /\ Count("draw(", out.text) = 0
            /\ Count("filldraw(", out.text) = 0
            /\ Count("dot(", out.text) = 0

(***************************************************************************)
(* C10.  The precision of the coordinates of a 2D path.                    *)
(***************************************************************************)
\* C10: every coordinate written by the Line, Polygon and Point formatters
\* and by the Arrow's head builder is a vertex of the primitive with both
\* its x and its y formatted to 5 significant digits ("%.5g"), unpadded.
C10_FiveSignificantDigits ==
    (call \in {"linebox", "polygonbox", "pointbox", "polygon"} /\ out.status = "ok") =>
        LET cs == WrittenCoords(out.text)
            vs == Vertices(prim)
        IN  \A r \in 1..Len(cs) :
                \E v \in 1..Len(vs) : cs[r] = <<Fmt_5g(vs[v][1]), Fmt_5g(vs[v][2])>>

(***************************************************************************)
(* C1-C3.  The container formatter.                                        *)
(***************************************************************************)
Formats(element) == Dispatch(element).status = "ok"

\* <<1, ..., n>>
UpTo(n) == [i \in 1..n |-> i]

C2_FallbackToDefaultConversion ==
    (call = "graphicselements"
        /\ \A i \in 1..Len(elements) :
            \/ lookup_method(elements[i]) /= None /\ Formats(elements[i])
            \/ lookup_method(elements[i]) = None /\ elements[i].has_to_asy) =>
        /\ out.status = "ok"
        /\ out.text = Join(<<"\n">>, [i \in 1..Len(elements) |->
                        IF lookup_method(elements[i]) = None
                        THEN to_asy(elements[i])
                        ELSE Dispatch(elements[i]).text])

\* C3: when a child fails that has a sibling after it (the failure is not
\* that of the fallback call of C2), graphicselements still returns, and
\* has dispatched every child, the siblings after the failing one included.
C3_FailureDoesNotAbort ==
    (call = "graphicselements"
        /\ (\A i \in 1..Len(elements) :
                lookup_method(elements[i]) = None => ~elements[i].has_to_asy)
        /\ (\E i \in 1..(Len(elements) - 1) : ~Formats(elements[i]))) =>
        /\ out.status = "ok"
        /\ dispatched = UpTo(Len(elements))

(***************************************************************************)
(* C4.  Purity of the formatters.                                          *)
(***************************************************************************)
Formatters == {"graphicselements", "graphicsbox", "apply"}

OpText(o) ==
    IF o.op = "matrix"
    THEN <<"(">> \o Fmt_f(o.args[5]) \o <<", ">> \o Fmt_f(o.args[6]) \o <<", ">>
         \o Fmt_f(o.args[1]) \o <<", ">> \o Fmt_f(o.args[3]) \o <<", ">>
         \o Fmt_f(o.args[2]) \o <<", ">> \o Fmt_f(o.args[4]) \o <<")">>
    ELSE <<IF o.op = "translate" THEN "shift(" ELSE o.op \o "(">>
         \o Join(<<", ">>, [k \in 1..Len(o.args) |-> Fmt_f(o.args[k])]) \o <<")">>

\* C8: after any calls of matrix, translate, scale and rotate, apply(body)
\* returns one save/restore block that holds the body and, before it, one
\* operation per call, in call order from the left, " * " between them,
\* a matrix call as the tuple (e, f, a, c, b, d).
C8_OperationsInCallOrder ==
    call = "apply" =>
        LET t == out.text
        IN  /\ out.status = "ok"
            /\ Len(transforms) = Len(ops)
            /\ Count(TemplateHead[1], t) = 1
            /\ Count(TemplateOpen[1], t) = 1
            /\ Count(TemplateClose[1], t) = 1
            /\ Between(t, TemplateHead[1], TemplateOpen[1])
                 = Join(<<" * ">>, [i \in 1..Len(ops) |-> OpText(ops[i])])
            /\ Between(t, TemplateOpen[1], TemplateClose[1]) = args[1]

C8_Witness ==
    /\ call = "apply"
    /\ Len(ops) = 3
    /\ ops[1] = [op |-> "matrix", args |-> <<1, 0, 0, 1, 5, 7>>]
    /\ ops[2].op = "rotate"
    /\ ops[3].op = "translate"
    /\ args[1] /= <<>>
    /\ SubSeq(out.text, 2, 11) = <<"(", "5", ".", "0", "0", "0", "0", "0", "0", ", ">>

(***************************************************************************)
(* BezierCurve: the curves, the tessellator and beziercurvebox.            *)
(***************************************************************************)
\* the degrees of a spline
Degrees == {1, 2, 3}

\* a BezierCurve: the control points of its curves are the polylines of the
\* other primitives, of which <<<<0, 0>>>> collapses to one point
BezierPrims ==
    {[kind |-> "BezierCurve", spline_degree |-> k, lines |-> ls, edge_color |-> e] :
        k \in Degrees, ls \in LineLists, e \in {NoColor, "black"}}

\* the marker a fragment of a collapsed curve begins with
DoubleDot == ".."

\* the literal beziercurvebox puts before a fragment
Origin == "(0.,0.)"

\* The tessellator, called with one segment (degree, points): one path
\* expression for the polyline, none for a polyline without points; the
\* expression of a polyline whose control points collapse to one point
\* begins with the double dot marker.
asy_bezier(spline_degree, points) ==
    LET joint == IF spline_degree = 1 THEN "--" ELSE DoubleDot
    IN  IF points = <<>> THEN <<>>
        ELSE IF \A k \in 1..Len(points) : points[k] = points[1]
             THEN << <<DoubleDot>> \o Coord_5g_x2(points[1]) >>
             ELSE << Coord_5g_x2(points[1])
                     \o Concat([k \in 1..(Len(points) - 1) |->
                                   <<joint>> \o Coord_5g_x2(points[k + 1])]) >>

\* path[:2] == ".."
BeginsWithDoubleDot(path) == path /= <<>> /\ path[1] = DoubleDot

\* the fragments of all the curves, in the order the two loops visit them
Fragments(self) ==
    Concat([k \in 1..Len(self.lines) |-> asy_bezier(self.spline_degree, self.lines[k])])

\* the statements before the dead code that follows the return
beziercurvebox(self) ==
    LET line_width == get_line_width(FALSE)
        pen        == asy_create_pens(self.edge_color, NoColor, Some(line_width), FALSE)
        paths      == Fragments(self)
    IN  Ok(Concat([k \in 1..Len(paths) |->
            <<"draw(">>
            \o (IF BeginsWithDoubleDot(paths[k]) THEN <<Origin>> ELSE <<>>)
            \o paths[k] \o <<", ">> \o pen \o <<");">>]))

BezierCurveBox == prim.kind = "BezierCurve" /\ Called("beziercurvebox", beziercurvebox(prim))

InitBezier ==
    /\ prim \in BezierPrims
    /\ elements = <<>>
    /\ view_width = None
    /\ transforms = <<>>
    /\ ops = <<>>
    /\ call = "none"
    /\ args = <<>>
    /\ out = NoResult
    /\ dispatched = <<>>
    /\ mp_dps = None

NextBezier == BezierCurveBox

SpecBezier == InitBezier /\ [][NextBezier]_vars

(***************************************************************************)
(* C11.  The origin before a fragment of a BezierCurve.                    *)
(***************************************************************************)
\* the text of one draw command per fragment of p, in fragment order, with
\* the edge pen, the origin put before the fragments that begin with ".."
\* (before the first fragment alone when first_only)
DrawnFragments(p, first_only) ==
    LET pen   == asy_create_pens(p.edge_color, NoColor, Some(get_line_width(FALSE)), FALSE)
        paths == Fragments(p)
    IN  Concat([k \in 1..Len(paths) |->
            <<"draw(">>
            \o (IF BeginsWithDoubleDot(paths[k]) /\ (first_only => k = 1)
                THEN <<Origin>> ELSE <<>>)
            \o paths[k] \o <<", ">> \o pen \o <<");">>])

\* C11: the origin "(0.,0.)" is put before a fragment exactly when it is
\* the first fragment emitted and begins with ".."; a later fragment that
\* begins with ".." is not prefixed; every fragment is wrapped in exactly
\* one draw command with the edge pen, in fragment order.
C11_OriginBeforeFirstFragmentOnly ==
    call = "beziercurvebox" =>
        /\ out.status = "ok"
        /\ out.text = DrawnFragments(prim, TRUE)

\* What holds of beziercurvebox instead (no theorem of a claim): the origin
\* is put before every fragment that begins with "..", the first or a later.
C11_OriginBeforeEveryMarkedFragment ==
    call = "beziercurvebox" =>
        /\ out.status = "ok"
        /\ out.text = DrawnFragments(prim, FALSE)

(***************************************************************************)
(* mathics.builtin.constants: the classes of the constants.                *)
(***************************************************************************)
\* The classes of the module.  mpmath is TRUE of the classes that have
\* MPMathConstant among their bases, and then first: their get_constant is
\* MPMathConstant.get_constant, that of the others SympyConstant.get_constant.
\* The class attributes are options; apply_N tells how N[name, precision_]
\* is defined.
ConstantClasses ==
    { [kind |-> "Catalan", mpmath |-> TRUE, mpmath_name |-> Some("catalan"),
       sympy_name |-> Some("Catalan"), apply_N |-> "get_constant"],
      [kind |-> "ComplexInfinity", mpmath |-> FALSE, mpmath_name |-> None,
       sympy_name |-> Some("zoo"), apply_N |-> "none"],
      [kind |-> "Degree", mpmath |-> TRUE, mpmath_name |-> Some("degree"),
       sympy_name |-> None, apply_N |-> "own"],
      [kind |-> "E", mpmath |-> TRUE, mpmath_name |-> Some("e"),
       sympy_name |-> Some("E"), apply_N |-> "get_constant"],
      [kind |-> "EulerGamma", mpmath |-> TRUE, mpmath_name |-> Some("euler"),
       sympy_name |-> Some("EulerGamma"), apply_N |-> "get_constant"],
      [kind |-> "GoldenRatio", mpmath |-> TRUE, mpmath_name |-> Some("phi"),
       sympy_name |-> Some("GoldenRatio"), apply_N |-> "get_constant"],
      [kind |-> "Indeterminate", mpmath |-> FALSE, mpmath_name |-> None,
       sympy_name |-> Some("nan"), apply_N |-> "none"],
      [kind |-> "Infinity", mpmath |-> FALSE, mpmath_name |-> None,
       sympy_name |-> Some("oo"), apply_N |-> "none"],
      [kind |-> "Pi", mpmath |-> TRUE, mpmath_name |-> Some("pi"),
       sympy_name |-> Some("pi"), apply_N |-> "get_constant"] }

\* the numbers of digits asked for
Digits == {20, 30, 50}

\* the precision argument, an expression: the symbol MachinePrecision (no
\* precision given), a number of digits (an expression without a name),
\* or a symbol that is no precision
Precisions ==
    {[name |-> "MachinePrecision", value |-> None], [name |-> "x", value |-> None]}
    \cup {[name |-> "", value |-> Some(d)] : d \in Digits}

\* the preference argument
Preferences == {"mpmath", "sympy", "numpy"}

\* a value returned (None is Python's None), in the shape of Ok and Raise
Return(value) == [status |-> "ok", text |-> value]

\* mathics.core.numbers.get_precision: None for MachinePrecision, the
\* number of digits for a number, PrecisionValueError for anything else
get_precision(precision) ==
    IF precision.name = "MachinePrecision" THEN Return(None)
    ELSE IF precision.value /= None THEN Return(precision.value)
    ELSE Raise("PrecisionValueError")

\* a number as a library computed it: the constant it is a value of and
\* the precision it was computed to, in bits or in decimal digits; "context"
\* is the precision of the mpmath context
Number(name, unit, precision) == [name |-> name, prec |-> <<unit, precision>>]

\* MachineReal(value): a float, whatever the precision of the value
MachineReal(value) == Some([type |-> "MachineReal", name |-> value.name])

\* PrecisionReal(value): a real of the precision of the value
PrecisionReal(value) ==
    Some([type |-> "PrecisionReal", name |-> value.name, prec |-> value.prec])

\* mp_fn(fn): the mpmath constant called without arguments
mp_fn(fn) == Number(fn, "context", mp_dps)

\* mp_fn(fn, d): the mpmath constant called with prec=int(d); prec is the
\* precision in bits of an mpmath constant.  The assignment of mp.dps is
\* in MpDps.
mp_fn_d(fn, d) == Number(fn, "bits", d)

\* sympy_fn.n(d): the sympy number evaluated to d digits
sympy_n(sympy_fn, d) == Number(sympy_fn, "digits", d)

\* SympyConstant.to_sympy() and Degree.to_sympy(), called without an
\* expression: the object of sympy, or None from Degree (its test
\* expr == Symbol("System`Degree") fails for None and no return follows)
to_sympy(self) == IF self.kind = "Degree" THEN None ELSE self.sympy_name

\* hasattr(self, "mpmath_name")
has_mpmath_name(self) == self.mpmath_name /= None

MPMathConstant_get_constant(self, precision, preference) ==
    LET d == get_precision(precision)
    IN  IF d.status = "PrecisionValueError" THEN Return(None)
        ELSE IF d.text = None THEN Return(MachineReal(mp_fn(self.mpmath_name[1])))
        ELSE IF preference = "mpmath"
             THEN Return(PrecisionReal(mp_fn_d(self.mpmath_name[1], d.text[1])))
        ELSE IF to_sympy(self) = None THEN Raise("AttributeError")
        ELSE Return(PrecisionReal(sympy_n(to_sympy(self)[1], d.text[1])))

\* sympy_fn() calls an object of sympy, which is not callable; sympy_fn_n is
\* no name of the module; result is unbound when neither branch assigns it
SympyConstant_get_constant(self, precision, preference) ==
    LET d == get_precision(precision)
    IN  IF d.status = "PrecisionValueError" THEN Return(None)
        ELSE IF d.text = None
             THEN IF has_mpmath_name(self)
                  THEN Return(MachineReal(mp_fn(self.mpmath_name[1])))
                  ELSE Raise("TypeError")
        ELSE IF preference = "sympy" THEN Raise("NameError")
        ELSE IF has_mpmath_name(self)
             THEN Return(PrecisionReal(mp_fn_d(self.mpmath_name[1], d.text[1])))
        ELSE Raise("UnboundLocalError")

\* self.get_constant: the method of the first base that defines it
get_constant(self, precision, preference) ==
    IF self.mpmath
    THEN MPMathConstant_get_constant(self, precision, preference)
    ELSE SympyConstant_get_constant(self, precision, preference)

\* whether the call reaches mp_fn(fn, d), which assigns mpmath.mp.dps
CallsMpFnD(self, precision, preference) ==
    /\ precision.value /= None
    /\ has_mpmath_name(self)
    /\ IF self.mpmath THEN preference = "mpmath" ELSE preference /= "sympy"

\* mpmath.mp.dps after the call
MpDps(self, precision, preference) ==
    IF CallsMpFnD(self, precision, preference) THEN precision.value ELSE mp_dps

\* Degree.apply_N: the value without mpmath
Degree_apply_N(self, precision) ==
    LET d == get_precision(precision)
    IN  IF d.status = "PrecisionValueError" THEN Return(None)
        ELSE IF d.text = None THEN Return(MachineReal(Number("degree", "float", 0)))
        ELSE Return(PrecisionReal(sympy_n("pi / 180", d.text[1])))

\* self.get_constant(precision, evaluation, preference)
GetConstant(precision, preference) ==
    /\ prim \in ConstantClasses
    /\ call' = "get_constant"
    /\ args' = <<precision, preference>>
    /\ out' = get_constant(prim, precision, preference)
    /\ mp_dps' = MpDps(prim, precision, preference)
    /\ UNCHANGED <<elements, view_width, transforms, ops, prim, dispatched>>

\* N[name, precision_] of the classes that define apply_N
Apply_N(precision) ==
    /\ prim \in ConstantClasses
    /\ prim.apply_N /= "none"
    /\ call' = "apply_N"
    /\ args' = <<precision, "sympy">>
    /\ out' = IF prim.apply_N = "own" THEN Degree_apply_N(prim, precision)
              ELSE get_constant(prim, precision, "sympy")
    /\ mp_dps' = IF prim.apply_N = "own" THEN mp_dps ELSE MpDps(prim, precision, "sympy")
    /\ UNCHANGED <<elements, view_width, transforms, ops, prim, dispatched>>

InitConstants ==
    /\ prim \in ConstantClasses
    /\ elements = <<>>
    /\ view_width = None
    /\ transforms = <<>>
    /\ ops = <<>>
    /\ call = "none"
    /\ args = <<>>
    /\ out = NoResult
    /\ dispatched = <<>>
    /\ mp_dps = None

NextConstants ==
    \/ \E precision \in Precisions, preference \in Preferences :
            GetConstant(precision, preference)
    \/ \E precision \in Precisions : Apply_N(precision)

SpecConstants == InitConstants /\ [][NextConstants]_vars

(***************************************************************************)
(* C12.  The outcomes of get_constant.                                     *)
(***************************************************************************)
\* C12: for every constant class and every call of its get_constant, with
\* any preference, the outcome is never an exception: it is None when the
\* precision is invalid, a MachineReal when no precision is given, and a
\* PrecisionReal of the requested number of digits when a valid precision
\* is given.
C12_NoneMachineRealOrPrecisionReal ==
    call = "get_constant" =>
        /\ out.status = "ok"
        /\ CASE args[1].name = "MachinePrecision" ->
                    out.text /= None /\ out.text[1].type = "MachineReal"
             [] args[1].value /= None ->
                    /\ out.text /= None
                    /\ out.text[1].type = "PrecisionReal"
                    /\ out.text[1].prec = <<"digits", args[1].value[1]>>
             [] OTHER -> out.text = None

\* What N[Pi, 50], N[E, 50] and the other definitions of N[name, precision_]
\* give (no theorem of a claim): they call get_constant of a class with
\* MPMathConstant first and with the preference "sympy", or not at all, and
\* there the three outcomes of C12 are the only ones.
C12_HoldsOfApply_N ==
    call = "apply_N" =>
        /\ out.status = "ok"
        /\ CASE args[1].name = "MachinePrecision" ->
                    out.text /= None /\ out.text[1].type = "MachineReal"
             [] args[1].value /= None ->
                    /\ out.text /= None
                    /\ out.text[1].type = "PrecisionReal"
                    /\ out.text[1].prec = <<"digits", args[1].value[1]>>
             [] OTHER -> out.text = None

====
